---- MODULE Spec2Model ----
(***************************************************************************)
(* StringPool (water/text/StringPool.cpp): a sorted table of interned      *)
(* strings guarded by a recursive mutex, with reference-count driven       *)
(* garbage collection.                                                     *)
(***************************************************************************)
EXTENDS Integers, Sequences, FiniteSets, TLC

VARIABLES
    strings,                    \* Array<String>: sequence of [id, text]
    lastGarbageCollectionTime,  \* uint32 as [hi, lo]
    lockOwner, lockDepth,       \* the recursive mutex `lock`
    refCount,                   \* live storage id -> reference count
    pinned,                     \* ids that a holder outside the modelled threads has a handle of
    held,                       \* thread -> bag of handles it keeps
    pc, arg, retval,            \* per thread: position, input of the running call, return value
    argStr,                     \* per thread: the String of the caller that it passes as const String&
    gcI,                        \* per thread: loop variable i of garbageCollect
    now, sinceGC, ticks,        \* the millisecond counter, true ms since the last stamp, advances used
    nextId, calls,              \* next fresh storage id, calls started so far
    call,                       \* per thread: what the running call has seen and done
    issued,                     \* history: text -> id of the handle returned last for it
    gcStart, gcSeen,            \* per thread: table ids at the start of its pass, ids it examined
    alive                       \* the pool object exists: constructed and not destroyed

vars == <<strings, lastGarbageCollectionTime, lockOwner, lockDepth, refCount, pinned,
          held, pc, arg, argStr, retval, gcI, now, sinceGC, ticks, nextId, calls,
          call, issued, gcStart, gcSeen, alive>>

----------------------------------------------------------------------------
(* Bounds *)
MaxCalls == 4          \* calls that may be started
MaxTicks == 1          \* clock reads that may see the clock advanced
GCCalls == 2           \* calls that may be started on the populated pool
LiveCalls == 2         \* calls that may be started where every call must return
ElapsedCap == 60001    \* sinceGC saturates here
MaxLen == 2            \* longest content in the tables that addPooledString is run on
MaxTable == 4          \* most entries in those tables

Threads == {"t1", "t2"}
None == "none"
NoArg == [shape |-> "none", buf |-> <<>>, s |-> 0, e |-> 0]
NoId == 0 - 1
Handle(i, x) == [id |-> i, text |-> x]
NoHandle == Handle(NoId, <<>>)
EmptyId == 0           \* the shared empty String

----------------------------------------------------------------------------
(* Program constants *)
minNumberOfStringsForGarbageCollection == 300
garbageCollectionInterval == 30000
Half == 65536          \* a uint32 is [hi, lo], two 16-bit halves

U32(h, l) == [hi |-> h, lo |-> l]
U32Add(a, n) ==
    LET lo == a.lo + n
        hi == a.hi + (lo \div Half)
    IN  U32(hi % Half, lo % Half)
U32Gt(a, b) == a.hi > b.hi \/ (a.hi = b.hi /\ a.lo > b.lo)
\* the distance from b up to a on the 32-bit counter
U32Sub(a, b) ==
    LET borrow == IF a.lo < b.lo THEN 1 ELSE 0
    IN  U32((a.hi - b.hi - borrow + Half) % Half, (a.lo - b.lo + Half) % Half)

Min(a, b) == IF a < b THEN a ELSE b

----------------------------------------------------------------------------
(* Inputs.  A raw buffer is a sequence of characters that contains its     *)
(* terminator 0; <<>> stands for the null pointer.  s and e are the        *)
(* positions (1-based) of the start and end pointers of a range.           *)
In(sh, b, s, e) == [shape |-> sh, buf |-> b, s |-> s, e |-> e]

EmptyInputs ==
    { In("cstr", <<>>, 1, 0), In("cstr", <<0>>, 1, 0),
      In("range", <<1, 0>>, 1, 1), In("range", <<0>>, 1, 2),
      In("ref", <<0>>, 1, 0), In("str", <<0>>, 1, 0) }

TextInputs ==
    { In("cstr", <<1, 0>>, 1, 0),
      In("range", <<1, 3, 0>>, 1, 2),
      In("ref", <<3, 0>>, 1, 0),
      In("str", <<3, 0>>, 1, 0),
      In("cstr", <<2, 8, 2, 0>>, 1, 0) }

Inputs == EmptyInputs \cup TextInputs

\* variant: the range overload does not test start == end
IsEmptyInputNoEq(in) ==
    CASE in.shape = "cstr"  -> in.buf = <<>> \/ in.buf[1] = 0
      [] in.shape = "range" -> in.buf[in.s] = 0
      [] in.shape = "ref"   -> in.buf[1] = 0
      [] in.shape = "str"   -> in.buf[1] = 0

\* the early-return tests of the four overloads
IsEmptyInput(in) ==
    CASE in.shape = "cstr"  -> in.buf = <<>> \/ in.buf[1] = 0
      [] in.shape = "range" -> in.buf[in.s] = 0 \/ in.s = in.e
      [] in.shape = "ref"   -> in.buf[1] = 0
      [] in.shape = "str"   -> in.buf[1] = 0

----------------------------------------------------------------------------
(* Comparators *)
CharAt(text, k) == IF k <= Len(text) THEN text[k] ELSE 0

Sign(d) == IF d < 0 THEN 0 - 1 ELSE IF d > 0 THEN 1 ELSE 0

\* CharPointer_UTF8::compare / String::compare: code points up to the terminator
RECURSIVE CharPointerCompare(_, _, _, _)
CharPointerCompare(buf, p, text, k) ==
    LET c1 == buf[p]
        c2 == CharAt(text, k)
    IN  IF c1 # c2 THEN Sign(c1 - c2)
        ELSE IF c1 = 0 THEN 0
        ELSE CharPointerCompare(buf, p + 1, text, k + 1)

\* variant: the range end is not consulted
RECURSIVE CompareStartEndNoEnd(_, _, _, _, _)
CompareStartEndNoEnd(buf, p, e, text, k) ==
    LET c1 == buf[p]
        c2 == CharAt(text, k)
        diff == c1 - c2
    IN  IF diff # 0 THEN (IF diff < 0 THEN 0 - 1 ELSE 1)
        ELSE IF c1 = 0 THEN 0
        ELSE CompareStartEndNoEnd(buf, p + 1, e, text, k + 1)

\* variant: the test for the terminator comes before the test of the difference
RECURSIVE CompareStartEndBreakFirst(_, _, _, _, _)
CompareStartEndBreakFirst(buf, p, e, text, k) ==
    LET c1 == IF p < e THEN buf[p] ELSE 0
        c2 == CharAt(text, k)
        diff == c1 - c2
    IN  IF c1 = 0 THEN 0
        ELSE IF diff # 0 THEN (IF diff < 0 THEN 0 - 1 ELSE 1)
        ELSE CompareStartEndBreakFirst(buf, p + 1, e, text, k + 1)

\* compareStrings (const StartEndString&, const String&)
RECURSIVE CompareStartEnd(_, _, _, _, _)
CompareStartEnd(buf, p, e, text, k) ==
    LET c1 == IF p < e THEN buf[p] ELSE 0
        c2 == CharAt(text, k)
        diff == c1 - c2
    IN  IF diff # 0 THEN (IF diff < 0 THEN 0 - 1 ELSE 1)
        ELSE IF c1 = 0 THEN 0
        ELSE CompareStartEnd(buf, p + 1, e, text, k + 1)

compareStrings(in, text) ==
    IF in.shape = "range"
    THEN CompareStartEnd(in.buf, in.s, in.e, text, 1)
    ELSE CharPointerCompare(in.buf, 1, text, 1)

\* the String built from an input: characters up to the end or the terminator
RECURSIVE TextFrom(_, _, _)
TextFrom(buf, p, e) ==
    IF p >= e \/ buf[p] = 0 THEN <<>> ELSE <<buf[p]>> \o TextFrom(buf, p + 1, e)

NewText(in) ==
    IF in.shape = "range" THEN TextFrom(in.buf, in.s, in.e)
    ELSE TextFrom(in.buf, 1, Len(in.buf) + 1)

----------------------------------------------------------------------------
(* addPooledString: the search loop, indices 0-based as in the code *)

\* variant: ++start is missing when the range has collapsed
RECURSIVE SearchLoopNoInc(_, _, _, _)
SearchLoopNoInc(tab, in, start, end) ==
    IF start < end
    THEN LET startComp == compareStrings(in, tab[start + 1].text)
             halfway == (start + end) \div 2
         IN  IF startComp = 0 THEN [found |-> TRUE, index |-> start]
             ELSE IF halfway = start
             THEN [found |-> FALSE, index |-> start]
             ELSE LET halfwayComp == compareStrings(in, tab[halfway + 1].text)
                  IN  IF halfwayComp = 0 THEN [found |-> TRUE, index |-> halfway]
                      ELSE IF halfwayComp > 0 THEN SearchLoopNoInc(tab, in, halfway, end)
                      ELSE SearchLoopNoInc(tab, in, start, halfway)
    ELSE [found |-> FALSE, index |-> start]

\* variant: the comparison with the element at start does not return on a match
RECURSIVE SearchLoopNoStartMatch(_, _, _, _)
SearchLoopNoStartMatch(tab, in, start, end) ==
    IF start < end
    THEN LET startComp == compareStrings(in, tab[start + 1].text)
             halfway == (start + end) \div 2
         IN  IF halfway = start
             THEN [found |-> FALSE, index |-> IF startComp > 0 THEN start + 1 ELSE start]
             ELSE LET halfwayComp == compareStrings(in, tab[halfway + 1].text)
                  IN  IF halfwayComp = 0 THEN [found |-> TRUE, index |-> halfway]
                      ELSE IF halfwayComp > 0 THEN SearchLoopNoStartMatch(tab, in, halfway, end)
                      ELSE SearchLoopNoStartMatch(tab, in, start, halfway)
    ELSE [found |-> FALSE, index |-> start]

\* variant: the upper bound is moved below the element at halfway - 1
RECURSIVE SearchLoopEndLow(_, _, _, _)
SearchLoopEndLow(tab, in, start, end) ==
    IF start < end
    THEN LET startComp == compareStrings(in, tab[start + 1].text)
             halfway == (start + end) \div 2
         IN  IF startComp = 0 THEN [found |-> TRUE, index |-> start]
             ELSE IF halfway = start
             THEN [found |-> FALSE, index |-> IF startComp > 0 THEN start + 1 ELSE start]
             ELSE LET halfwayComp == compareStrings(in, tab[halfway + 1].text)
                  IN  IF halfwayComp = 0 THEN [found |-> TRUE, index |-> halfway]
                      ELSE IF halfwayComp > 0 THEN SearchLoopEndLow(tab, in, halfway, end)
                      ELSE SearchLoopEndLow(tab, in, start, halfway - 1)
    ELSE [found |-> FALSE, index |-> start]

\* variant: an equal entry at halfway is not returned
RECURSIVE SearchLoopNoHalfMatch(_, _, _, _)
SearchLoopNoHalfMatch(tab, in, start, end) ==
    IF start < end
    THEN LET startComp == compareStrings(in, tab[start + 1].text)
             halfway == (start + end) \div 2
         IN  IF startComp = 0 THEN [found |-> TRUE, index |-> start]
             ELSE IF halfway = start
             THEN [found |-> FALSE, index |-> IF startComp > 0 THEN start + 1 ELSE start]
             ELSE LET halfwayComp == compareStrings(in, tab[halfway + 1].text)
                  IN  IF halfwayComp > 0 THEN SearchLoopNoHalfMatch(tab, in, halfway, end)
                      ELSE SearchLoopNoHalfMatch(tab, in, start, halfway)
    ELSE [found |-> FALSE, index |-> start]

RECURSIVE SearchLoop(_, _, _, _)
SearchLoop(tab, in, start, end) ==
    IF start < end
    THEN LET startComp == compareStrings(in, tab[start + 1].text)
             halfway == (start + end) \div 2
         IN  IF startComp = 0 THEN [found |-> TRUE, index |-> start]
             ELSE IF halfway = start
             THEN [found |-> FALSE, index |-> IF startComp > 0 THEN start + 1 ELSE start]
             ELSE LET halfwayComp == compareStrings(in, tab[halfway + 1].text)
                  IN  IF halfwayComp = 0 THEN [found |-> TRUE, index |-> halfway]
                      ELSE IF halfwayComp > 0 THEN SearchLoop(tab, in, halfway, end)
                      ELSE SearchLoop(tab, in, start, halfway)
    ELSE [found |-> FALSE, index |-> start]

addPooledString(tab, in) == SearchLoop(tab, in, 0, Len(tab))

\* one iteration of the loop, entered with start < end: how it leaves and the bounds it
\* leaves (on a return, start is the index of the entry returned)
SearchStep(tab, in, start, end) ==
    LET startComp == compareStrings(in, tab[start + 1].text)
        halfway == (start + end) \div 2
    IN  IF startComp = 0 THEN [exit |-> "return", start |-> start, end |-> end]
        ELSE IF halfway = start
        THEN [exit |-> "break", start |-> IF startComp > 0 THEN start + 1 ELSE start, end |-> end]
        ELSE LET halfwayComp == compareStrings(in, tab[halfway + 1].text)
             IN  IF halfwayComp = 0 THEN [exit |-> "return", start |-> halfway, end |-> end]
                 ELSE IF halfwayComp > 0 THEN [exit |-> "loop", start |-> halfway, end |-> end]
                 ELSE [exit |-> "loop", start |-> start, end |-> halfway]

\* the bounds at the head of each of the first n iterations, and how the last one left
RECURSIVE SearchRun(_, _, _, _, _)
SearchRun(tab, in, start, end, n) ==
    IF start >= end THEN [heads |-> <<>>, exit |-> "end", start |-> start]
    ELSE LET r == SearchStep(tab, in, start, end)
             h == [start |-> start, end |-> end]
         IN  IF r.exit # "loop" \/ n = 1
             THEN [heads |-> <<h>>, exit |-> r.exit, start |-> r.start]
             ELSE LET rest == SearchRun(tab, in, r.start, r.end, n - 1)
                  IN  [rest EXCEPT !.heads = <<h>> \o @]

InsertAt(tab, i, x) == SubSeq(tab, 1, i) \o <<x>> \o SubSeq(tab, i + 1, Len(tab))
RemoveAt(tab, i) == SubSeq(tab, 1, i) \o SubSeq(tab, i + 2, Len(tab))

----------------------------------------------------------------------------
(* Reference counts and bags of handles *)
RcInc(rc, id, n) ==
    IF id \in DOMAIN rc THEN [rc EXCEPT ![id] = @ + n]
    ELSE [x \in DOMAIN rc \cup {id} |-> IF x = id THEN n ELSE rc[x]]
\* one reference to each id of `ids` goes away; storage whose count reaches 0 is freed
RcDecAll(rc, ids) ==
    IF ids = {} THEN rc
    ELSE [x \in {y \in DOMAIN rc : ~(y \in ids /\ rc[y] = 1)} |->
             IF x \in ids THEN rc[x] - 1 ELSE rc[x]]
RcDec(rc, id) ==
    IF rc[id] = 1 THEN [x \in DOMAIN rc \ {id} |-> rc[x]] ELSE [rc EXCEPT ![id] = @ - 1]

BagAdd(b, h) == [x \in DOMAIN b \cup {h} |-> IF x \in DOMAIN b THEN b[x] + (IF x = h THEN 1 ELSE 0) ELSE 1]
BagDel(b, h) ==
    IF b[h] = 1 THEN [x \in DOMAIN b \ {h} |-> b[x]] ELSE [b EXCEPT ![h] = @ - 1]
EmptyBag == [x \in {} |-> 0]

----------------------------------------------------------------------------
(* The clock *)
\* the counter is monotonic: a read sees it where it was or further on, below 2^32
Deltas == {garbageCollectionInterval, garbageCollectionInterval + 1}
NoWrap(t, d) == t.hi < Half - 1 \/ t.lo + d < Half
Advance == {0} \cup (IF ticks < MaxTicks THEN {d \in Deltas : NoWrap(now, d)} ELSE {})

NeedsCollection(size, t, last) ==
    size > minNumberOfStringsForGarbageCollection
        /\ U32Gt(t, U32Add(last, garbageCollectionInterval))

----------------------------------------------------------------------------
(* Initial states *)
NoCall == [size |-> 0 - 1, gc |-> FALSE, had |-> NoId, found |-> FALSE, index |-> 0 - 1,
           removed |-> {}]
NoPass == [ids |-> <<>>, sole |-> {}]

\* text of the k-th entry of a table that is already populated
PreText(k) == <<2, 1 + ((k - 1) \div 20), 1 + ((k - 1) % 20)>>
Preload(n) == [k \in 1..n |-> [id |-> k, text |-> PreText(k)]]

InitCommon ==
    /\ lastGarbageCollectionTime = U32(0, 0)
    /\ lockOwner = None /\ lockDepth = 0
    /\ held = [t \in Threads |-> EmptyBag]
    /\ pc = [t \in Threads |-> "idle"]
    /\ arg = [t \in Threads |-> NoArg]
    /\ argStr = [t \in Threads |-> NoHandle]
    /\ retval = [t \in Threads |-> NoHandle]
    /\ gcI = [t \in Threads |-> 0]
    /\ sinceGC = IF now.hi > 0 THEN ElapsedCap ELSE Min(now.lo, ElapsedCap)
    /\ call = [t \in Threads |-> NoCall]
    /\ issued = EmptyBag
    /\ gcStart = [t \in Threads |-> NoPass]
    /\ gcSeen = [t \in Threads |-> <<>>]
    /\ alive = TRUE

\* the pool right after construction
Init ==
    /\ strings = <<>>
    /\ refCount = EmptyBag /\ pinned = {}
    /\ nextId = 1
    /\ now = U32(0, 0) /\ ticks = 0
    /\ calls = 0
    /\ InitCommon

\* a pool that has been in use: the table is populated, no collection has run yet.
\* The entries have holders outside the modelled threads, but for a few that only the
\* table refers to: entry 142 has the content of the input 2,8,2
MaxU == Half - 1
Pre(n, p, c) == [n |-> n, pin |-> p, clock |-> c]
PreStates ==
    LET m == minNumberOfStringsForGarbageCollection
    IN  { Pre(m, 2..m, U32(MaxU, MaxU)),
          Pre(m + 1, (1..(m + 1)) \ {142, m, m + 1}, U32(0, 0)),
          Pre(m + 1, 1..(m + 1), U32(MaxU, MaxU)) }

InitGC ==
    /\ \E p \in PreStates :
          /\ strings = Preload(p.n)
          /\ pinned = p.pin
          /\ refCount = [k \in 1..p.n |-> IF k \in p.pin THEN 2 ELSE 1]
          /\ nextId = p.n + 1
          /\ now = p.clock
    /\ ticks = 0
    /\ calls = MaxCalls - GCCalls
    /\ InitCommon

----------------------------------------------------------------------------
(* Lock: CarlaRecursiveMutexLocker on the pool's recursive mutex *)
CanLock(t) == lockOwner \in {None, t}
Locked(t) == /\ lockOwner' = t /\ lockDepth' = lockDepth + 1
Unlocked(t) ==
    /\ lockDepth' = lockDepth - 1
    /\ lockOwner' = IF lockDepth = 1 THEN None ELSE lockOwner

Tick(d) ==
    /\ now' = U32Add(now, d)
    /\ ticks' = IF d = 0 THEN ticks ELSE ticks + 1
    /\ sinceGC' = Min(sinceGC + d, ElapsedCap)

----------------------------------------------------------------------------
(* getPooledString *)

Remember(f, text, id) == [x \in DOMAIN f \cup {text} |-> IF x = text THEN id ELSE f[x]]

\* entry of any overload: the early return, or on to the locker. The argument of the
\* String overload is a String of the caller: one it makes for the call, or the one it
\* has kept from an earlier call when that has the content (a caller has one such String
\* at a time, and drops it before it makes one of other content)
GetPooledString(t, in) ==
    /\ alive /\ pc[t] = "idle" /\ calls < MaxCalls
    /\ calls' = calls + 1
    /\ IF IsEmptyInput(in)
       THEN /\ issued' = Remember(issued, <<>>, EmptyId)
            /\ UNCHANGED <<pc, arg, argStr, refCount, nextId>>
       ELSE /\ pc' = [pc EXCEPT ![t] = "lock"]
            /\ arg' = [arg EXCEPT ![t] = in]
            /\ IF in.shape = "str" /\ argStr[t] = NoHandle
               THEN /\ argStr' = [argStr EXCEPT ![t] = Handle(nextId, NewText(in))]
                    /\ refCount' = RcInc(refCount, nextId, 1)
                    /\ nextId' = nextId + 1
               ELSE /\ in.shape = "str" => argStr[t].text = NewText(in)
                    /\ UNCHANGED <<argStr, refCount, nextId>>
            /\ UNCHANGED issued
    /\ UNCHANGED <<strings, lastGarbageCollectionTime, lockOwner, lockDepth, pinned, held, retval,
                   gcI, now, sinceGC, ticks, call, gcStart, gcSeen, alive>>

\* the id of the handle for `text` that t keeps, if any
HeldFor(t, text) ==
    IF \E h \in DOMAIN held[t] : h.text = text
    THEN (CHOOSE h \in DOMAIN held[t] : h.text = text).id
    ELSE NoId

\* variant: the locker is missing
AcquireLockNone(t) ==
    /\ pc[t] = "lock"
    /\ pc' = [pc EXCEPT ![t] = "check"]
    /\ call' = [call EXCEPT ![t] =
                  [NoCall EXCEPT !.size = Len(strings), !.had = HeldFor(t, NewText(arg[t]))]]
    /\ UNCHANGED <<strings, lastGarbageCollectionTime, lockOwner, lockDepth, refCount, pinned, held,
                   arg, argStr, retval, gcI, now, sinceGC, ticks, nextId, calls, issued, gcStart,
                   gcSeen, alive>>

\* variant: the call of garbageCollectIfNeeded is missing
AcquireLockSkipCheck(t) ==
    /\ pc[t] = "lock" /\ CanLock(t)
    /\ Locked(t)
    /\ pc' = [pc EXCEPT ![t] = "add"]
    /\ call' = [call EXCEPT ![t] =
                  [NoCall EXCEPT !.size = Len(strings), !.had = HeldFor(t, NewText(arg[t]))]]
    /\ UNCHANGED <<strings, lastGarbageCollectionTime, refCount, pinned, held, arg, argStr, retval,
                   gcI, now, sinceGC, ticks, nextId, calls, issued, gcStart, gcSeen, alive>>

\* const CarlaRecursiveMutexLocker sl (lock);
AcquireLock(t) ==
    /\ pc[t] = "lock" /\ CanLock(t)
    /\ Locked(t)
    /\ pc' = [pc EXCEPT ![t] = "check"]
    /\ call' = [call EXCEPT ![t] =
                  [NoCall EXCEPT !.size = Len(strings), !.had = HeldFor(t, NewText(arg[t]))]]
    /\ UNCHANGED <<strings, lastGarbageCollectionTime, refCount, pinned, held, arg, argStr, retval,
                   gcI, now, sinceGC, ticks, nextId, calls, issued, gcStart, gcSeen, alive>>

\* garbageCollectIfNeeded: the clock is read only when the size test passes
GarbageCollectIfNeeded(t) ==
    /\ pc[t] = "check"
    /\ IF Len(strings) > minNumberOfStringsForGarbageCollection
       THEN \E d \in Advance :
              /\ Tick(d)
              /\ IF NeedsCollection(Len(strings), now', lastGarbageCollectionTime)
                 THEN /\ pc' = [pc EXCEPT ![t] = "gclock"]
                      /\ call' = [call EXCEPT ![t].gc = TRUE]
                 ELSE /\ pc' = [pc EXCEPT ![t] = "add"]
                      /\ UNCHANGED call
       ELSE /\ pc' = [pc EXCEPT ![t] = "add"]
            /\ UNCHANGED <<now, sinceGC, ticks, call>>
    /\ UNCHANGED <<strings, lastGarbageCollectionTime, lockOwner, lockDepth, refCount, pinned, held,
                   arg, argStr, retval, gcI, nextId, calls, issued, gcStart, gcSeen, alive>>

\* variant: a match hands out the entry without taking a reference
AddPooledStringNoCopy(t) ==
    /\ pc[t] = "add"
    /\ LET r == addPooledString(strings, arg[t])
       IN  /\ call' = [call EXCEPT ![t].found = r.found, ![t].index = r.index]
           /\ IF r.found
              THEN LET e == strings[r.index + 1]
                   IN  /\ retval' = [retval EXCEPT ![t] = Handle(e.id, e.text)]
                       /\ issued' = Remember(issued, e.text, e.id)
                       /\ pc' = [pc EXCEPT ![t] = "unlock"]
              ELSE /\ pc' = [pc EXCEPT ![t] = "insert"]
                   /\ UNCHANGED <<retval, issued>>
    /\ UNCHANGED <<strings, lastGarbageCollectionTime, lockOwner, lockDepth, refCount, pinned, held,
                   arg, argStr, gcI, now, sinceGC, ticks, nextId, calls, gcStart, gcSeen, alive>>

\* addPooledString, the loop: a match returns a copy of the entry, else on to the insert
AddPooledString(t) ==
    /\ pc[t] = "add"
    /\ LET r == addPooledString(strings, arg[t])
       IN  /\ call' = [call EXCEPT ![t].found = r.found, ![t].index = r.index]
           /\ IF r.found
              THEN LET e == strings[r.index + 1]
                   IN  /\ refCount' = RcInc(refCount, e.id, 1)
                       /\ retval' = [retval EXCEPT ![t] = Handle(e.id, e.text)]
                       /\ issued' = Remember(issued, e.text, e.id)
                       /\ pc' = [pc EXCEPT ![t] = "unlock"]
              ELSE /\ pc' = [pc EXCEPT ![t] = "insert"]
                   /\ UNCHANGED <<refCount, retval, issued>>
    /\ UNCHANGED <<strings, lastGarbageCollectionTime, lockOwner, lockDepth, pinned, held, arg,
                   argStr, gcI, now, sinceGC, ticks, nextId, calls, gcStart, gcSeen, alive>>

\* strings.insert (start, newString); return strings.getReference (start);
\* a String argument is copied (shared storage), any other input makes a new String
InsertPooledString(t) ==
    /\ pc[t] = "insert"
    /\ LET id == IF arg[t].shape = "str" THEN argStr[t].id ELSE nextId
           text == NewText(arg[t])
       IN  /\ strings' = InsertAt(strings, call[t].index, [id |-> id, text |-> text])
           /\ refCount' = RcInc(refCount, id, 2)
           /\ nextId' = IF arg[t].shape = "str" THEN nextId ELSE nextId + 1
           /\ retval' = [retval EXCEPT ![t] = Handle(id, text)]
           /\ issued' = Remember(issued, text, id)
    /\ pc' = [pc EXCEPT ![t] = "unlock"]
    /\ UNCHANGED <<lastGarbageCollectionTime, lockOwner, lockDepth, pinned, held, arg, argStr, gcI,
                   now, sinceGC, ticks, calls, call, gcStart, gcSeen, alive>>

\* variant: the return on a match leaves without unlocking
ReleaseLockOnInsertOnly(t) ==
    /\ pc[t] = "unlock"
    /\ IF call[t].found THEN UNCHANGED <<lockOwner, lockDepth>> ELSE Unlocked(t)
    /\ held' = [held EXCEPT ![t] = BagAdd(@, retval[t])]
    /\ pc' = [pc EXCEPT ![t] = "idle"]
    /\ arg' = [arg EXCEPT ![t] = NoArg]
    /\ retval' = [retval EXCEPT ![t] = NoHandle]
    /\ call' = [call EXCEPT ![t] = NoCall]
    /\ UNCHANGED <<strings, lastGarbageCollectionTime, refCount, pinned, argStr, gcI, now, sinceGC,
                   ticks, nextId, calls, issued, gcStart, gcSeen, alive>>

\* the locker's destructor and the return to the caller, who keeps the returned String;
\* a String argument (const String&) is the caller's and lives on
ReleaseLock(t) ==
    /\ pc[t] = "unlock"
    /\ Unlocked(t)
    /\ held' = [held EXCEPT ![t] = BagAdd(@, retval[t])]
    /\ pc' = [pc EXCEPT ![t] = "idle"]
    /\ arg' = [arg EXCEPT ![t] = NoArg]
    /\ retval' = [retval EXCEPT ![t] = NoHandle]
    /\ call' = [call EXCEPT ![t] = NoCall]
    /\ UNCHANGED <<strings, lastGarbageCollectionTime, refCount, pinned, argStr, gcI, now, sinceGC,
                   ticks, nextId, calls, issued, gcStart, gcSeen, alive>>

\* a caller drops one of its handles (String destructor, no lock)
ReleaseHandle(t, h) ==
    /\ pc[t] = "idle" /\ h \in DOMAIN held[t]
    /\ held' = [held EXCEPT ![t] = BagDel(@, h)]
    /\ refCount' = RcDec(refCount, h.id)
    /\ UNCHANGED <<strings, lastGarbageCollectionTime, lockOwner, lockDepth, pinned, pc, arg, argStr,
                   retval, gcI, now, sinceGC, ticks, nextId, calls, call, issued, gcStart, gcSeen,
                   alive>>

\* a caller drops the String that it has passed as an argument (String destructor, no lock)
ReleaseArgument(t) ==
    /\ pc[t] = "idle" /\ argStr[t] # NoHandle
    /\ argStr' = [argStr EXCEPT ![t] = NoHandle]
    /\ refCount' = RcDec(refCount, argStr[t].id)
    /\ UNCHANGED <<strings, lastGarbageCollectionTime, lockOwner, lockDepth, pinned, held, pc, arg,
                   retval, gcI, now, sinceGC, ticks, nextId, calls, call, issued, gcStart, gcSeen,
                   alive>>

\* a holder outside the threads drops its handle; the holders that do so within a run
\* are those of the entries of Leaving (the last entry of the table of 301)
Leaving == {minNumberOfStringsForGarbageCollection + 1}
ReleaseOutside(id) ==
    /\ id \in pinned
    /\ pinned' = pinned \ {id}
    /\ refCount' = RcDec(refCount, id)
    /\ UNCHANGED <<strings, lastGarbageCollectionTime, lockOwner, lockDepth, held, pc, arg, argStr,
                   retval, gcI, now, sinceGC, ticks, nextId, calls, call, issued, gcStart, gcSeen,
                   alive>>

----------------------------------------------------------------------------
(* garbageCollect *)

\* variant: the explicit call goes through the size and interval test
GarbageCollectIfDue(t) ==
    /\ alive /\ pc[t] = "idle" /\ calls < MaxCalls
    /\ calls' = calls + 1
    /\ pc' = [pc EXCEPT ![t] =
                IF NeedsCollection(Len(strings), now, lastGarbageCollectionTime)
                THEN "gclock" ELSE "idle"]
    /\ UNCHANGED <<strings, lastGarbageCollectionTime, lockOwner, lockDepth, refCount, pinned, held,
                   arg, argStr, retval, gcI, now, sinceGC, ticks, nextId, call, issued, gcStart,
                   gcSeen, alive>>

\* an explicit call
GarbageCollect(t) ==
    /\ alive /\ pc[t] = "idle" /\ calls < MaxCalls
    /\ calls' = calls + 1
    /\ pc' = [pc EXCEPT ![t] = "gclock"]
    /\ UNCHANGED <<strings, lastGarbageCollectionTime, lockOwner, lockDepth, refCount, pinned, held,
                   arg, argStr, retval, gcI, now, sinceGC, ticks, nextId, call, issued, gcStart,
                   gcSeen, alive>>

\* int i = strings.size(), and a variant that starts one lower
ScanStartLow(tab) == Len(tab) - 1
ScanStart(tab) == Len(tab)

\* const CarlaRecursiveMutexLocker sl (lock);  int i = strings.size()
GcLock(t) ==
    /\ pc[t] = "gclock" /\ CanLock(t)
    /\ Locked(t)
    /\ gcI' = [gcI EXCEPT ![t] = ScanStart(strings)]
    /\ gcStart' = [gcStart EXCEPT ![t] =
                     [ids |-> [k \in 1..Len(strings) |-> strings[k].id],
                      sole |-> {strings[k].id : k \in {j \in 1..Len(strings) :
                                                        refCount[strings[j].id] = 1}}]]
    /\ gcSeen' = [gcSeen EXCEPT ![t] = <<>>]
    /\ pc' = [pc EXCEPT ![t] = "scan"]
    /\ UNCHANGED <<strings, lastGarbageCollectionTime, refCount, pinned, held, arg, argStr, retval,
                   now, sinceGC, ticks, nextId, calls, call, issued, alive>>

\* the index the scan examines after the one at i (0-based), and the test it applies
NextIndex(i) == i - 1
\* variant: an entry with one external holder counts as unused
IsSoleHeldLoose(rc, id) == rc[id] <= 2
IsSoleHeld(rc, id) == rc[id] = 1

\* one iteration of the loop on the scan state [tab, seen, i]: --i, then the test
ScanOne(st) ==
    LET i == NextIndex(st.i)
        id == st.tab[i + 1].id
    IN  IF IsSoleHeld(refCount, id)
        THEN [tab |-> RemoveAt(st.tab, i), seen |-> Append(st.seen, id), i |-> i]
        ELSE [st EXCEPT !.seen = Append(@, id), !.i = i]

\* the ids whose table reference the scan has released
IdsOf(tab) == {tab[k].id : k \in 1..Len(tab)}
Gone(st) == IF Len(st.tab) = Len(strings) THEN {} ELSE IdsOf(strings) \ IdsOf(st.tab)

ScanState(t) == [tab |-> strings, seen |-> gcSeen[t], i |-> gcI[t]]

\* history: the entries that the pass triggered by the call of t has removed so far
Removed(t, tab) ==
    IF arg[t] = NoArg \/ Len(tab) = Len(strings) THEN call
    ELSE [call EXCEPT ![t].removed =
              @ \cup ({strings[k] : k \in 1..Len(strings)} \ {tab[k] : k \in 1..Len(tab)})]

\* one iteration of: for (int i = strings.size(); --i >= 0;) if (count == 1) remove (i)
GcScan(t) ==
    /\ pc[t] = "scan"
    /\ IF NextIndex(gcI[t]) >= 0
       THEN LET st == ScanOne(ScanState(t))
            IN  /\ gcI' = [gcI EXCEPT ![t] = st.i]
                /\ strings' = st.tab
                /\ refCount' = RcDecAll(refCount, Gone(st))
                /\ gcSeen' = [gcSeen EXCEPT ![t] = st.seen]
                /\ call' = Removed(t, st.tab)
                /\ UNCHANGED pc
       ELSE /\ pc' = [pc EXCEPT ![t] = "stamp"]
            /\ UNCHANGED <<strings, refCount, gcI, gcSeen, call>>
    /\ UNCHANGED <<lastGarbageCollectionTime, lockOwner, lockDepth, pinned, held, arg, argStr,
                   retval, now, sinceGC, ticks, nextId, calls, issued, gcStart, alive>>

\* lastGarbageCollectionTime = Time::getApproximateMillisecondCounter()
GcStamp(t) ==
    /\ pc[t] = "stamp"
    /\ \E d \in Advance :
          /\ now' = U32Add(now, d)
          /\ ticks' = IF d = 0 THEN ticks ELSE ticks + 1
          /\ lastGarbageCollectionTime' = now'
          /\ sinceGC' = 0
    /\ pc' = [pc EXCEPT ![t] = "gcunlock"]
    /\ UNCHANGED <<strings, lockOwner, lockDepth, refCount, pinned, held, arg, argStr, retval, gcI,
                   nextId, calls, call, issued, gcStart, gcSeen, alive>>

\* variant: the inner locker's destructor releases the mutex altogether
GcUnlockAll(t) ==
    /\ pc[t] = "gcunlock"
    /\ lockDepth' = 0 /\ lockOwner' = None
    /\ pc' = [pc EXCEPT ![t] = IF arg[t] = NoArg THEN "idle" ELSE "add"]
    /\ gcStart' = [gcStart EXCEPT ![t] = NoPass]
    /\ gcSeen' = [gcSeen EXCEPT ![t] = <<>>]
    /\ UNCHANGED <<strings, lastGarbageCollectionTime, refCount, pinned, held, arg, argStr, retval,
                   gcI, now, sinceGC, ticks, nextId, calls, call, issued, alive>>

\* variant: the inner locker's destructor does not release
GcUnlockKeep(t) ==
    /\ pc[t] = "gcunlock"
    /\ pc' = [pc EXCEPT ![t] = IF arg[t] = NoArg THEN "idle" ELSE "add"]
    /\ gcStart' = [gcStart EXCEPT ![t] = NoPass]
    /\ gcSeen' = [gcSeen EXCEPT ![t] = <<>>]
    /\ UNCHANGED <<strings, lastGarbageCollectionTime, lockOwner, lockDepth, refCount, pinned, held,
                   arg, argStr, retval, gcI, now, sinceGC, ticks, nextId, calls, call, issued,
                   alive>>

\* the locker's destructor: back to the caller, or to the lookup of getPooledString
GcUnlock(t) ==
    /\ pc[t] = "gcunlock"
    /\ Unlocked(t)
    /\ pc' = [pc EXCEPT ![t] = IF arg[t] = NoArg THEN "idle" ELSE "add"]
    /\ gcStart' = [gcStart EXCEPT ![t] = NoPass]
    /\ gcSeen' = [gcSeen EXCEPT ![t] = <<>>]
    /\ UNCHANGED <<strings, lastGarbageCollectionTime, refCount, pinned, held, arg, argStr, retval,
                   gcI, now, sinceGC, ticks, nextId, calls, call, issued, alive>>

----------------------------------------------------------------------------
(* ~StringPool *)

\* StringPool::~StringPool() {}: the members are destroyed, so the table releases its
\* reference to every entry and is gone; handles that callers keep outlive the pool.
\* A pool is destroyed when no call runs on it, and no call is made on it afterwards
DestroyStringPool ==
    /\ alive /\ \A t \in Threads : pc[t] = "idle"
    /\ alive' = FALSE
    /\ strings' = <<>>
    /\ refCount' = RcDecAll(refCount, IdsOf(strings))
    /\ UNCHANGED <<lastGarbageCollectionTime, lockOwner, lockDepth, pinned, held, pc, arg, argStr,
                   retval, gcI, now, sinceGC, ticks, nextId, calls, call, issued, gcStart, gcSeen>>

----------------------------------------------------------------------------
Next ==
    \/ \E t \in Threads, in \in Inputs : GetPooledString(t, in)
    \/ \E t \in Threads : AcquireLock(t)
    \/ \E t \in Threads : GarbageCollectIfNeeded(t)
    \/ \E t \in Threads : AddPooledString(t)
    \/ \E t \in Threads : InsertPooledString(t)
    \/ \E t \in Threads : ReleaseLock(t)
    \/ \E t \in Threads : \E h \in DOMAIN held[t] : ReleaseHandle(t, h)
    \/ \E t \in Threads : ReleaseArgument(t)
    \/ \E t \in Threads : GarbageCollect(t)
    \/ \E t \in Threads : GcLock(t)
    \/ \E t \in Threads : GcScan(t)
    \/ \E t \in Threads : GcStamp(t)
    \/ \E t \in Threads : GcUnlock(t)
    \/ DestroyStringPool

\* the same steps on a pool that has holders outside the threads
NextGC ==
    \/ Next
    \/ \E id \in Leaving : ReleaseOutside(id)

\* the pool from its construction
Spec == Init /\ [][Next]_vars
\* the populated pool, where the automatic collection can trigger
SpecGC == InitGC /\ [][NextGC]_vars

\* the steps of a call that is under way, apart from taking the lock
Run(t) ==
    \/ GarbageCollectIfNeeded(t)
    \/ AddPooledString(t)
    \/ InsertPooledString(t)
    \/ ReleaseLock(t)
    \/ GcScan(t)
    \/ GcStamp(t)
    \/ GcUnlock(t)

\* threads keep running, and the lock is fair: a thread that waits for it gets it
Fair ==
    \A t \in Threads :
        /\ WF_vars(Run(t))
        /\ SF_vars(AcquireLock(t))
        /\ SF_vars(GcLock(t))

\* a pool in use with two entries, one of them held outside the threads
InitLive ==
    /\ strings = Preload(2)
    /\ pinned = {1}
    /\ refCount = [k \in 1..2 |-> IF k \in pinned THEN 2 ELSE 1]
    /\ nextId = 3
    /\ now = U32(0, 0) /\ ticks = 0
    /\ calls = MaxCalls - LiveCalls
    /\ InitCommon

SpecFair == InitLive /\ [][Next]_vars /\ Fair

----------------------------------------------------------------------------
(* addPooledString on its own: a caller that holds the lock, with any input, about to   *)
(* search any sorted table                                                               *)
Caller == "t1"
Foo == <<102, 111, 111>>
Bar == <<98, 97, 114>>

\* reference order on contents: lexicographic, a proper prefix first
TextLess(a, b) ==
    \E k \in 1..(Len(b)) :
        /\ \A j \in 1..(k - 1) : j <= Len(a) /\ a[j] = b[j]
        /\ (k > Len(a) \/ a[k] < b[k])

\* the characters of those tables' contents
Alphabet == {1, 2}
Texts == UNION {[1..n -> Alphabet] : n \in 1..MaxLen}
TextSets == {S \in SUBSET Texts : Cardinality(S) <= MaxTable} \cup SUBSET {Foo, Bar}

\* the table that holds the contents of S: entry k is the one with k - 1 smaller ones
TableOf(S) ==
    [k \in 1..Cardinality(S) |->
        [id |-> k, text |-> CHOOSE x \in S : Cardinality({y \in S : TextLess(y, x)}) = k - 1]]

\* every way of passing the content x: the four overloads, and a range that ends inside
\* a longer buffer
InputsFor(x) ==
    { In("cstr", x \o <<0>>, 1, 0),
      In("range", x \o <<0>>, 1, Len(x) + 1),
      In("range", x \o <<1, 0>>, 1, Len(x) + 1),
      In("ref", x \o <<0>>, 1, 0),
      In("str", x \o <<0>>, 1, 0) }

InitAdd ==
    /\ \E S \in TextSets : \E x \in Texts \cup {Foo, Bar} : \E in \in InputsFor(x) :
          LET n == Cardinality(S)
              a == IF in.shape = "str" THEN n + 1 ELSE NoId
          IN  /\ strings = TableOf(S)
              /\ pinned = 1..n
              /\ refCount = [k \in 1..(IF a = NoId THEN n ELSE n + 1) |-> IF k <= n THEN 2 ELSE 1]
              /\ nextId = IF a = NoId THEN n + 1 ELSE n + 2
              /\ arg = [t \in Threads |-> IF t = Caller THEN in ELSE NoArg]
              /\ argStr = [t \in Threads |-> IF t = Caller /\ a # NoId THEN Handle(a, x) ELSE NoHandle]
              /\ call = [t \in Threads |-> IF t = Caller THEN [NoCall EXCEPT !.size = n] ELSE NoCall]
    /\ pc = [t \in Threads |-> IF t = Caller THEN "add" ELSE "idle"]
    /\ lockOwner = Caller /\ lockDepth = 1
    /\ lastGarbageCollectionTime = U32(0, 0)
    /\ now = U32(0, 0) /\ ticks = 0 /\ sinceGC = 0
    /\ calls = MaxCalls
    /\ held = [t \in Threads |-> EmptyBag]
    /\ retval = [t \in Threads |-> NoHandle]
    /\ gcI = [t \in Threads |-> 0]
    /\ issued = EmptyBag
    /\ gcStart = [t \in Threads |-> NoPass]
    /\ gcSeen = [t \in Threads |-> <<>>]
    /\ alive = TRUE

NextAdd ==
    \/ AddPooledString(Caller)
    \/ InsertPooledString(Caller)
    \/ ReleaseLock(Caller)

\* addPooledString run on every sorted table and input within the bounds
SpecAdd == InitAdd /\ [][NextAdd]_vars

----------------------------------------------------------------------------
(* The interval test on its own: a caller that holds the lock and is about to run the   *)
(* collection check, with any stored timestamp and any clock value                      *)
U32Points ==
    LET g == garbageCollectionInterval
    IN  {U32(h, l) : h \in {0, 1, Half - 1}, l \in {0, 1, g - 1, g, g + 1, Half - g - 1, Half - g, Half - 1}}

InitInterval ==
    /\ \E last \in U32Points : \E t \in U32Points :
          /\ lastGarbageCollectionTime = last
          /\ now = t
          /\ sinceGC = LET e == U32Sub(t, last)
                       IN  IF e.hi > 0 THEN ElapsedCap ELSE Min(e.lo, ElapsedCap)
    /\ strings = Preload(minNumberOfStringsForGarbageCollection + 1)
    /\ pinned = 1..Len(strings)
    /\ refCount = [k \in 1..Len(strings) |-> 2]
    /\ nextId = Len(strings) + 1
    /\ arg = [t \in Threads |-> IF t = Caller THEN In("cstr", <<1, 0>>, 1, 0) ELSE NoArg]
    /\ argStr = [t \in Threads |-> NoHandle]
    /\ call = [t \in Threads |-> IF t = Caller THEN [NoCall EXCEPT !.size = Len(strings)] ELSE NoCall]
    /\ pc = [t \in Threads |-> IF t = Caller THEN "check" ELSE "idle"]
    /\ lockOwner = Caller /\ lockDepth = 1
    /\ ticks = MaxTicks
    /\ calls = MaxCalls
    /\ held = [t \in Threads |-> EmptyBag]
    /\ retval = [t \in Threads |-> NoHandle]
    /\ gcI = [t \in Threads |-> 0]
    /\ issued = EmptyBag
    /\ gcStart = [t \in Threads |-> NoPass]
    /\ gcSeen = [t \in Threads |-> <<>>]
    /\ alive = TRUE

NextInterval ==
    \/ GarbageCollectIfNeeded(Caller)
    \/ GcLock(Caller)
    \/ GcScan(Caller)
    \/ GcStamp(Caller)
    \/ GcUnlock(Caller)
    \/ AddPooledString(Caller)
    \/ InsertPooledString(Caller)
    \/ ReleaseLock(Caller)

\* the collection check run on every pair of timestamp and clock value of U32Points
SpecInterval == InitInterval /\ [][NextInterval]_vars

----------------------------------------------------------------------------
(* Properties *)

EntriesWith(text) == {i \in 1..Len(strings) : strings[i].text = text}

\* handles that callers have in hand: kept ones and return values on their way out
LiveHandles ==
    UNION {DOMAIN held[t] : t \in Threads} \cup ({retval[t] : t \in Threads} \ {NoHandle})

\* the thread t takes the step that ends its lookup-or-insert with a return value
Returns(t) == retval[t] = NoHandle /\ retval'[t] # NoHandle

\* C1: while an entry with content c is in the table, a call with content c (any of the
\* four overloads) returns that entry and inserts no second entry for c; so handles that
\* are live together and were returned for equal content are identical.
C1_OneEntryPerContent ==
    /\ [][\A t \in Threads :
            (pc[t] = "add" /\ pc'[t] # "add" /\ EntriesWith(NewText(arg[t])) # {})
                => /\ strings' = strings
                   /\ \E i \in EntriesWith(NewText(arg[t])) : retval'[t].id = strings[i].id]_vars
    /\ [](\A g, h \in LiveHandles : g.text = h.text => g.id = h.id)

\* a call through one overload has found the entry made through another one
C1_Witness ==
    \E t \in Threads :
        /\ pc[t] = "unlock" /\ call[t].found /\ arg[t].shape = "range"
        /\ \E u \in Threads \ {t} : \E h \in DOMAIN held[u] : h = retval[t]

\* C2: the table is strictly sorted by content at every point of every run, so no two
\* entries have equal content.
C2_StrictlySorted ==
    \A i, j \in 1..Len(strings) : i < j => TextLess(strings[i].text, strings[j].text)

\* a collection pass on a table of three entries has removed one of them
C2_Witness ==
    \E t \in Threads :
        /\ pc[t] \in {"scan", "stamp"}
        /\ Len(gcStart[t].ids) = 3
        /\ Len(strings) = 2

\* C3: an entry that has an external holder when a pass examines it stays in the table;
\* as long as the pool exists, entries leave the table only in steps of garbageCollect;
\* no String of a caller, returned handle or argument that outlives its call, refers to
\* freed storage, in the pool's lifetime and after it.
C3_HeldEntriesStay ==
    /\ [][alive' => \A id \in IdsOf(strings) \ IdsOf(strings') :
                        /\ refCount[id] = 1
                        /\ \E t \in Threads : pc[t] = "scan" /\ lockOwner = t]_vars
    /\ [](/\ \A h \in LiveHandles : h.id \in DOMAIN refCount
          /\ \A t \in Threads : argStr[t] # NoHandle => argStr[t].id \in DOMAIN refCount)

\* a pass has removed a sole-held entry and has kept one whose only holder is the String
\* argument of a call that has returned (count 2: the table and the argument)
C3_Witness ==
    \E t \in Threads :
        /\ pc[t] = "stamp"
        /\ \E k \in 1..Len(gcSeen[t]) : gcSeen[t][k] \notin IdsOf(strings)
        /\ \E u \in Threads :
              /\ pc[u] = "idle" /\ argStr[u].id \in IdsOf(strings)
              /\ refCount[argStr[u].id] = 2
              /\ \E k \in 1..Len(gcSeen[t]) : gcSeen[t][k] = argStr[u].id

\* C4: threads that intern the same content concurrently and keep their handles leave
\* exactly one entry for it in the pool's table, and all their handles are that entry.
C4_ConcurrentSameContent ==
    alive => \A h \in LiveHandles :
                /\ Cardinality(EntriesWith(h.text)) = 1
                /\ \A i \in EntriesWith(h.text) : strings[i].id = h.id

\* two threads, two calls each, same content, all four handles kept
C4_Witness ==
    \E h \in LiveHandles :
        \A t \in Threads : h \in DOMAIN held[t] /\ held[t][h] = 2

\* C5 as stated: any two calls with equal content return the same identity, whatever
\* happens between them, handle releases and collection passes included.
C5_AnyTwoCallsSameHandle ==
    [][\A t \in Threads :
          (Returns(t) /\ NewText(arg[t]) \in DOMAIN issued)
              => retval'[t].id = issued[NewText(arg[t])]]_vars

\* C5 amended: a call returns the identity that the previous call with equal content
\* returned, provided that entry is still in the table when this call looks it up.
C5_SameHandleWhileEntryStays ==
    [][\A t \in Threads :
          (/\ Returns(t)
           /\ NewText(arg[t]) \in DOMAIN issued
           /\ issued[NewText(arg[t])] \in IdsOf(strings))
              => retval'[t].id = issued[NewText(arg[t])]]_vars

\* a call has found an entry that nobody has kept a handle of since an earlier call
C5_Witness ==
    \E t \in Threads :
        /\ pc[t] = "unlock" /\ call[t].found
        /\ argStr[t] = NoHandle
        /\ refCount[retval[t].id] = 2

\* C6: an entry that is sole-held when a pass starts is gone when the pass ends; the
\* scan examines every entry of the table exactly once, last to first; a call that
\* inserts content which an earlier call has returned an entry for finds that entry gone
\* from the table, and the entry it makes is other storage than the removed one (a
\* caller's String that shared the removed entry's storage would make it the same).
C6_SoleHeldRemoved ==
    /\ [](\A t \in Threads : pc[t] = "stamp" =>
            /\ gcStart[t].sole \cap IdsOf(strings) = {}
            /\ Len(gcSeen[t]) = Len(gcStart[t].ids)
            /\ \A k \in 1..Len(gcSeen[t]) :
                  gcSeen[t][k] = gcStart[t].ids[Len(gcSeen[t]) + 1 - k])
    /\ [][\A t \in Threads :
            (pc[t] = "insert" /\ pc'[t] # "insert" /\ NewText(arg[t]) \in DOMAIN issued)
                => /\ issued[NewText(arg[t])] \notin IdsOf(strings)
                   /\ retval'[t].id # issued[NewText(arg[t])]]_vars

\* a pass has ended that removed two entries and kept one
C6_Witness ==
    \E t \in Threads :
        /\ pc[t] = "stamp"
        /\ Cardinality(gcStart[t].sole) >= 2
        /\ Len(strings) >= 1

\* C7 as stated: a call runs a collection pass exactly when the table holds more than
\* 300 entries and more than 30000 ms have passed since the last collection.
C7_CollectsIffBothHold ==
    [][\A t \in Threads :
          (pc[t] = "check" /\ pc'[t] # "check")
              => ((pc'[t] = "gclock")
                    <=> (/\ Len(strings) > minNumberOfStringsForGarbageCollection
                         /\ sinceGC' > garbageCollectionInterval))]_vars

\* C8 as stated: interning content the caller already holds returns the same identity and
\* leaves the table size as it was.
C8_SameHandleSameSize ==
    \A t \in Threads :
        (pc[t] = "unlock" /\ call[t].had # NoId)
            => /\ retval[t].id = call[t].had
               /\ Len(strings) = call[t].size

\* C8 amended: interning content the caller already holds returns the same identity and
\* inserts nothing; the table size is unchanged by a call that runs no collection pass,
\* and cannot grow in a call that runs one.
C8_SameHandleNoInsert ==
    \A t \in Threads :
        (pc[t] = "unlock" /\ call[t].had # NoId)
            => /\ retval[t].id = call[t].had
               /\ call[t].found
               /\ Len(strings) <= call[t].size
               /\ (~call[t].gc => Len(strings) = call[t].size)

\* a caller that keeps its handle has interned the content again, in a call that collected
C8_Witness ==
    \E t \in Threads :
        /\ pc[t] = "unlock" /\ call[t].had # NoId
        /\ call[t].gc /\ Len(strings) < call[t].size

\* C9: a call with a null or empty input returns the empty value and changes neither the
\* table, nor the timestamp, nor the lock, nor the clock reading, in every state.
C9_EmptyInputTouchesNothing ==
    [][\A t \in Threads : \A in \in Inputs :
          (NewText(in) = <<>> /\ GetPooledString(t, in))
              => /\ UNCHANGED <<strings, lastGarbageCollectionTime, lockOwner, lockDepth,
                               pc, refCount, now, ticks>>
                 /\ <<>> \in DOMAIN issued' /\ issued'[<<>>] = EmptyId]_vars

\* the one call made so far had an empty input, in a state where both conditions hold
C9_Witness ==
    /\ <<>> \in DOMAIN issued
    /\ calls = MaxCalls - GCCalls + 1
    /\ NeedsCollection(Len(strings), now, lastGarbageCollectionTime)

\* C10: the table and the timestamp of a pool change only in steps of the thread that holds
\* the lock; a thread inside a locked section owns the lock, so at most one is inside; a
\* thread that is back from its call holds the lock as often as before it, not at all.
LockedSection == {"check", "add", "insert", "unlock", "scan", "stamp", "gcunlock"}
C10_LockDiscipline ==
    /\ [](\A t \in Threads :
            /\ pc[t] \in LockedSection => (lockOwner = t /\ lockDepth >= 1)
            /\ pc[t] = "idle" => lockOwner # t)
    /\ [](Cardinality({t \in Threads : pc[t] \in LockedSection}) <= 1)
    /\ [][(alive' /\ (strings' # strings \/ lastGarbageCollectionTime' # lastGarbageCollectionTime))
            => \E t \in Threads :
                  /\ lockOwner = t /\ pc[t] \in LockedSection
                  /\ \A u \in Threads \ {t} : pc'[u] = pc[u]]_vars

\* a thread is about to insert while the other one waits for the lock
C10_Witness ==
    \E t, u \in Threads :
        /\ pc[t] = "insert" /\ pc[u] = "gclock"
        /\ lockOwner = t

\* the ids of a table, in table order
IdSeq(tab) == [k \in 1..Len(tab) |-> tab[k].id]

\* C11: an explicit garbageCollect call starts a pass whatever the table size and the
\* time since the last collection (the only call that ends without taking the lock is a
\* getPooledString of empty input); at the end of its scan every entry that was sole-held
\* at the start is gone, every entry of the start table that has an external holder is
\* in the table, and the entries left are in the order they had.
C11_ExplicitPassIsFull ==
    /\ [][\A t \in Threads : GarbageCollect(t) => pc'[t] = "gclock"]_vars
    /\ [][calls' = calls + 1 =>
            \/ \E t \in Threads : pc[t] = "idle" /\ pc'[t] = "lock" /\ arg'[t] # NoArg
            \/ \E t \in Threads : pc[t] = "idle" /\ pc'[t] = "gclock" /\ arg'[t] = NoArg
            \/ pc' = pc /\ <<>> \in DOMAIN issued']_vars
    /\ [](\A t \in Threads : (pc[t] = "stamp" /\ arg[t] = NoArg) =>
            /\ gcStart[t].sole \cap IdsOf(strings) = {}
            /\ \A k \in 1..Len(gcStart[t].ids) :
                  LET id == gcStart[t].ids[k]
                  IN  (id \in DOMAIN refCount /\ refCount[id] >= 2) => id \in IdsOf(strings)
            /\ IdSeq(strings) = SelectSeq(gcStart[t].ids, LAMBDA x : x \in IdsOf(strings)))

\* an explicit pass on a table of at most 300 entries, 0 ms after an earlier pass, has
\* removed an entry and left a held one
C11_Witness ==
    \E t \in Threads :
        /\ pc[t] = "stamp" /\ arg[t] = NoArg
        /\ ticks = 1 /\ sinceGC = 0
        /\ Len(gcStart[t].ids) <= minNumberOfStringsForGarbageCollection
        /\ gcStart[t].sole # {}
        /\ Len(strings) >= 1

\* the timestamp is written by the stamp step of a pass, with the clock value that step
\* reads, by the thread that holds the lock, and by no other step
StampSteps ==
    /\ \A t \in Threads :
          (pc[t] = "stamp" /\ pc'[t] # "stamp") => lastGarbageCollectionTime' = now'
    /\ (lastGarbageCollectionTime' # lastGarbageCollectionTime)
          => \E t \in Threads : pc[t] = "stamp" /\ lockOwner = t /\ lockDepth >= 1

\* C12: every pass, automatic or explicit, stores the clock value read after its scan,
\* whatever it removed; nothing else writes the timestamp, and it is written under the
\* lock; so after a pass, an explicit one included, no automatic collection starts until
\* more than a full interval has passed.
C12_StampPostponesNextPass ==
    /\ [][StampSteps]_vars
    /\ [][\A t \in Threads :
            (pc[t] = "check" /\ pc'[t] = "gclock") => sinceGC' > garbageCollectionInterval]_vars

\* the number of entries that compare less than the content x
LessCount(tab, x) == Cardinality({i \in 1..Len(tab) : TextLess(tab[i].text, x)})

\* C13: on every strictly sorted table and for every non-empty input, the search gives
\* what a linear scan gives: an entry of equal content is returned and the table is left
\* as it is; otherwise one entry is inserted at index k, the number of entries that
\* compare less, every other entry stays in its order, and the entry at k is returned.
\* ("foo", "bar", "foo": the table is <<"bar", "foo">> and the third call returns the
\* entry of the first.)
C13_SearchEqualsLinearScan ==
    /\ [][\A t \in Threads :
            (pc[t] = "add" /\ pc'[t] # "add") =>
                LET x == NewText(arg[t])
                IN  /\ strings' = strings
                    /\ IF EntriesWith(x) # {}
                       THEN /\ pc'[t] = "unlock"
                            /\ \E i \in EntriesWith(x) : retval'[t] = Handle(strings[i].id, x)
                       ELSE pc'[t] = "insert"]_vars
    /\ [][\A t \in Threads :
            (pc[t] = "insert" /\ pc'[t] # "insert") =>
                LET x == NewText(arg[t])
                    k == LessCount(strings, x)
                IN  /\ Len(strings') = Len(strings) + 1
                    /\ \A i \in 1..k : strings'[i] = strings[i]
                    /\ strings'[k + 1].text = x
                    /\ strings'[k + 1].id \notin IdsOf(strings)
                    /\ \A i \in (k + 1)..Len(strings) : strings'[i + 1] = strings[i]
                    /\ retval'[t] = Handle(strings'[k + 1].id, x)]_vars

\* an entry has been inserted inside a table of four entries, away from both ends
C13_Witness ==
    /\ pc[Caller] = "unlock" /\ ~call[Caller].found
    /\ Len(strings) > 4
    /\ call[Caller].index > 1 /\ call[Caller].index < Len(strings) - 2

\* C14 as stated: the check collects exactly when the size test passes and
\* now > lastGarbageCollectionTime + 30000 on 32-bit values; for every pair of clock value
\* and stored timestamp, a sum that overflows or a wrapped clock included, it collects
\* only if more than 30000 ms lie between the stored timestamp and the clock value, so
\* two automatic passes are never 30000 ms or less apart.
C14_TestImpliesIntervalElapsed ==
    [][\A t \in Threads :
          (pc[t] = "check" /\ pc'[t] # "check") =>
              /\ (pc'[t] = "gclock")
                    <=> (/\ Len(strings) > minNumberOfStringsForGarbageCollection
                         /\ U32Gt(now', U32Add(lastGarbageCollectionTime,
                                               garbageCollectionInterval)))
              /\ (pc'[t] = "gclock")
                    => U32Gt(U32Sub(now', lastGarbageCollectionTime),
                             U32(0, garbageCollectionInterval))]_vars

\* the sign that the reference order gives for content x against content y
RefCompare(x, y) == IF x = y THEN 0 ELSE IF TextLess(x, y) THEN 0 - 1 ELSE 1
IsProperPrefix(x, y) == Len(x) < Len(y) /\ SubSeq(y, 1, Len(x)) = x

\* C15: for every content x and every stored string s, the comparison of x given as a
\* range, as a terminated buffer and as an owned string have the same sign, which is the
\* sign of the lexicographic order; the result is 0 exactly when x and s are equal; a
\* range that is a proper prefix of s compares less than s.
C15_ComparatorsAgree ==
    \A t \in Threads : pc[t] = "add" =>
        LET x == NewText(arg[t])
        IN  \A k \in 1..Len(strings) :
              LET y == strings[k].text
              IN  /\ \A in \in InputsFor(x) :
                        /\ Sign(compareStrings(in, y)) = RefCompare(x, y)
                        /\ (compareStrings(in, y) = 0) <=> (x = y)
                        /\ (in.shape = "range" /\ IsProperPrefix(x, y))
                              => compareStrings(in, y) < 0
                  /\ LET asBuffer == compareStrings(In("cstr", x \o <<0>>, 1, 0), y)
                         asString == compareStrings(In("str", x \o <<0>>, 1, 0), y)
                     IN  \A in \in InputsFor(x) :
                            /\ Sign(compareStrings(in, y)) = Sign(asBuffer)
                            /\ Sign(compareStrings(in, y)) = Sign(asString)

\* a range that ends inside a longer buffer has been compared with the entry that the
\* whole buffer spells, and was not taken for it
C15_Witness ==
    /\ pc[Caller] = "insert"
    /\ arg[Caller].shape = "range"
    /\ arg[Caller].buf[arg[Caller].e] # 0
    /\ call[Caller].index < Len(strings)
    /\ strings[call[Caller].index + 1].text = TextFrom(arg[Caller].buf, 1, Len(arg[Caller].buf))

\* the positions inside garbageCollect's locked section
PassSection == {"scan", "stamp", "gcunlock"}

\* C16: a pass triggered by getPooledString takes the lock its thread already holds
\* without waiting; the hold depth is 1 in getPooledString, 2 inside the triggered pass
\* and never more; while the lock is held no other thread is inside a locked section;
\* the depth is 0 again when getPooledString returns.
C16_ReentrantDepth ==
    /\ [](/\ lockDepth \in 0..2
          /\ (lockDepth = 0) <=> (lockOwner = None))
    /\ [](\A t \in Threads :
            /\ (pc[t] = "gclock" /\ arg[t] # NoArg)
                  => (lockOwner = t /\ lockDepth = 1 /\ CanLock(t))
            /\ (pc[t] \in PassSection /\ arg[t] # NoArg) => (lockOwner = t /\ lockDepth = 2)
            /\ (pc[t] \in PassSection /\ arg[t] = NoArg) => (lockOwner = t /\ lockDepth = 1)
            /\ (pc[t] \in {"check", "add", "insert", "unlock"})
                  => (lockOwner = t /\ lockDepth = 1)
            /\ (lockOwner = t) => \A u \in Threads \ {t} : pc[u] \notin LockedSection)
    /\ [][\A t \in Threads :
            (pc[t] = "unlock" /\ pc'[t] = "idle") => (lockDepth' = 0 /\ lockOwner' = None)]_vars

\* a thread is inside the pass its getPooledString call triggered while the other thread
\* waits for the lock
C16_Witness ==
    \E t \in Threads : \E u \in Threads \ {t} :
        /\ pc[t] = "stamp" /\ arg[t] # NoArg
        /\ lockDepth = 2
        /\ pc[u] \in {"lock", "gclock"}

\* the loop of addPooledString on the table and input of thread t, cut off after one
\* iteration more than the table has entries
SearchOf(t) == SearchRun(strings, arg[t], 0, Len(strings), Len(strings) + 1)

\* C17: every iteration of the search loop that neither returns nor breaks leaves
\* end - start smaller, and the loop ends with the result the lookup uses; the scan of a
\* pass ends after one visit per entry; with threads that keep running and a fair lock,
\* every call of getPooledString or garbageCollect returns.
C17_OperationsComplete ==
    /\ [](\A t \in Threads : pc[t] = "add" =>
            LET r == SearchOf(t)
            IN  /\ \A k \in 1..(Len(r.heads) - 1) :
                      r.heads[k + 1].end - r.heads[k + 1].start
                          < r.heads[k].end - r.heads[k].start
                /\ r.exit # "loop"
                /\ addPooledString(strings, arg[t])
                      = [found |-> r.exit = "return", index |-> r.start])
    /\ [](\A t \in Threads :
            /\ pc[t] = "scan" => Len(gcSeen[t]) + gcI[t] = Len(gcStart[t].ids)
            /\ pc[t] = "stamp" => (NextIndex(gcI[t]) < 0 /\ Len(gcSeen[t]) = Len(gcStart[t].ids)))
    /\ \A t \in Threads : (pc[t] # "idle") ~> (pc[t] = "idle")

\* a thread waits for the lock while the other one is in the middle of a scan
C17_Witness ==
    \E t \in Threads : \E u \in Threads \ {t} :
        /\ pc[t] = "scan" /\ gcI[t] >= 1 /\ Len(gcSeen[t]) >= 1
        /\ pc[u] = "lock"

\* the handles that the threads keep, as pairs of thread and handle
KeptPairs == UNION {{<<t, h>> : h \in DOMAIN held[t]} : t \in Threads}

RECURSIVE SumKept(_)
SumKept(P) ==
    IF P = {} THEN 0
    ELSE LET p == CHOOSE q \in P : TRUE
         IN  held[p[1]][p[2]] + SumKept(P \ {p})

\* the external holders of the storage id: kept handles, return values on their way to
\* the caller, String arguments of calls under way, holders outside the threads
Holders(id) ==
    SumKept({p \in KeptPairs : p[2].id = id})
        + Cardinality({t \in Threads : retval[t].id = id})
        + Cardinality({t \in Threads : argStr[t].id = id})
        + (IF id \in pinned THEN 1 ELSE 0)

\* C18: in every state the reference count of each table entry is the number of its
\* external holders plus 1 for the table's slot, hence at least 1, whichever overload
\* made the entry and while holders release handles without the lock.
C18_CountIsHoldersPlusOne ==
    \A k \in 1..Len(strings) :
        /\ strings[k].id \in DOMAIN refCount
        /\ refCount[strings[k].id] = Holders(strings[k].id) + 1
        /\ refCount[strings[k].id] >= 1

\* a call of the String overload has inserted and returned: the lock is free, and the
\* entry shares its storage with the caller's argument and the handle the caller keeps
\* (count 3), while the other thread keeps handles and may drop them
C18_Witness ==
    \E t \in Threads : \E k \in 1..Len(strings) :
        /\ pc[t] = "idle" /\ lockOwner = None
        /\ argStr[t].id = strings[k].id
        /\ refCount[strings[k].id] = 3
        /\ \E u \in Threads \ {t} : held[u] # EmptyBag /\ pc[u] = "idle"

\* C19: in a getPooledString call the collection check comes after the lock is taken and
\* before the lookup, the lookup-or-insert follows the check (or the pass it triggered)
\* and nothing of the call comes after it, all with the lock held by the caller; the
\* entry returned is in the table when the call releases the lock; the pass a call
\* triggers does not remove the entry the call returns, and when that pass has removed
\* an entry of equal content the call returns a newly inserted one.
C19_CheckThenLookup ==
    /\ [][\A t \in Threads :
            /\ (pc'[t] = "check" /\ pc[t] # "check") => pc[t] = "lock"
            /\ (pc[t] = "check" /\ pc'[t] # "check") => pc'[t] \in {"gclock", "add"}
            /\ (pc'[t] = "add" /\ pc[t] # "add")
                  => (pc[t] = "check" \/ (pc[t] = "gcunlock" /\ call[t].gc))
            /\ (pc[t] = "add" /\ pc'[t] # "add") => pc'[t] \in {"insert", "unlock"}
            /\ (pc[t] = "insert" /\ pc'[t] # "insert") => pc'[t] = "unlock"
            /\ (pc[t] \in LockedSection \ {"unlock"} /\ arg[t] # NoArg)
                  => (lockOwner = t /\ lockOwner' = t)]_vars
    /\ [](\A t \in Threads : pc[t] = "unlock" =>
            /\ retval[t].text = NewText(arg[t])
            /\ \E k \in 1..Len(strings) : strings[k] = [id |-> retval[t].id, text |-> retval[t].text]
            /\ \A e \in call[t].removed : e.id # retval[t].id
            /\ (\E e \in call[t].removed : e.text = retval[t].text)
                  => (~call[t].found /\ Len(strings) = call[t].size - Cardinality(call[t].removed) + 1))

\* the pass that a call triggered has removed the sole-held entry of the call's content,
\* and the call has inserted a new one
C19_Witness ==
    \E t \in Threads :
        /\ pc[t] = "unlock" /\ call[t].gc
        /\ \E e \in call[t].removed : e.text = retval[t].text

====
